---- MODULE Spec2Model ----
(***************************************************************************)
(* Walk-forward optimisation driver of gcsBot-btc (src/src/optimizer.py):  *)
(* WalkForwardOptimizer.run, its checkpoint file, the per-cycle search     *)
(* (study.optimize over _objective with _progress_callback) and the        *)
(* shutdown flag set by the signal handler.                                *)
(*                                                                         *)
(* Scores are integers in units of 1.0 (Sharpe), capitals in currency      *)
(* units.  The 25 trials of a cycle are scaled down to NTrials; trials are *)
(* interchangeable, so the study is kept as counts per trial state.        *)
(*                                                                         *)
(* The components the driver calls have specifications of their own, each  *)
(* over its own variable: SpecSim (the simulators), SpecLab (the labeler)  *)
(* and SpecAcm (the confidence controller); Spec is the driver.            *)
(***************************************************************************)
EXTENDS Integers, Sequences, FiniteSets, TLC

\* ---------------------------------------------------------------- bounds
MaxBars == 4
MaxTrain == 2
MaxTest == 1
MaxStep == 2
MaxCycles == 3
NTrials == 2

\* ------------------------------------------------------- program constants
TrainFailScore == -1
AcceptanceBar == 0

CapitalScale == 1000
SharpeValues == {-2, 0, 1}
Capitals == {90, 110}

\* n_total .. step_size   len(full_data) and WFO_TRAIN/TEST/STEP_MINUTES
\* pc                      position of the process in run(), or how it ended
\* shutdown_requested      the flag of graceful_shutdown
\* start_index .. final_model   the locals of run(); final_model is 0 for
\*                         None, else the cycle whose train window it was fit on
\* study                   the cycle's optuna study: trials per state, best value
\* last_trial              what the most recent _objective call did and returned
\* state_file              WFO_STATE_FILE: <<>> or <<the record>>
\* model_file, scaler_file, params_file   the cycle whose artifact the file
\*                         holds, 0 when it was never written
\* summary                 what run() logs after the loop
\* History variables, read by the properties only:
\* uninterrupted           the state of the run that is never stopped
\* signal_in_search        the flag was set while study.optimize was running
\* resumed                 this process loaded an existing checkpoint
\* cycles_ended, checkpoint_writes   counted per process
\* The components the driver calls, each run on its own inputs:
\* lab                     one call of create_labels_triple_barrier
\* sim                     one simulation over a test window
\* acm                     one AdaptiveConfidenceManager
\* io                      the file system under WFO_STATE_FILE when writes can
\*                         fail and the file can be read at any moment
VARIABLES
    n_total, train_size, test_size, step_size,
    pc,
    shutdown_requested,
    start_index, cycle, all_results, final_model,
    study, last_trial,
    state_file, model_file, scaler_file, params_file,
    summary,
    uninterrupted, signal_in_search, resumed, cycles_ended, checkpoint_writes,
    lab, sim, acm, io

config == <<n_total, train_size, test_size, step_size>>
memory == <<start_index, cycle, all_results, final_model>>
files == <<state_file, model_file, scaler_file, params_file>>
ghosts == <<uninterrupted, signal_in_search, resumed, cycles_ended, checkpoint_writes>>
others == <<lab, sim, acm, io>>
vars == <<config, pc, shutdown_requested, memory, study, last_trial, files, summary, ghosts, others>>

\* ------------------------------------------------------------ checkpoint
\* _save_wfo_state: the record json.dump writes to WFO_STATE_FILE.
SaveWfoState_StoresCycle(c, s, results) ==
    <<[last_completed_cycle |-> c, next_start_index |-> s, results_so_far |-> results]>>

SaveWfoState(c, s, results) ==
    <<[last_completed_cycle |-> c - 1, next_start_index |-> s, results_so_far |-> results]>>

\* What open(WFO_STATE_FILE, 'w') leaves before json.dump has written
\* anything, and what a json.dump that stopped midway leaves.
Truncated == <<[written |-> "nothing"]>>

Partial == <<[written |-> "part"]>>

\* json.load raises on the file: it is empty or ends before the closing brace.
Unparsable(f) == f # <<>> /\ "written" \in DOMAIN f[1]

\* _load_wfo_state, lines 48-57: the try block holds open, json.load and the
\* three state.get calls, and `except Exception` catches whatever they
\* raise; os.path.exists and the final return are outside it and do not raise.
LoadWfoStateRaises_Unparsable(f) == Unparsable(f)

LoadWfoStateRaises(f) == FALSE

LoadWfoState_NoIncrement(f) ==
    IF f = <<>> \/ Unparsable(f)
    THEN [start |-> 0, cycle |-> 1, results |-> <<>>]
    ELSE [start |-> f[1].next_start_index,
          cycle |-> f[1].last_completed_cycle,
          results |-> f[1].results_so_far]

\* _load_wfo_state: (start_index, cycle, all_results) from the file, or the
\* fresh start when there is no file or the file cannot be parsed.  The file
\* is <<>>, <<record>>, Truncated or Partial.
LoadWfoState(f) ==
    IF f = <<>> \/ Unparsable(f)
    THEN [start |-> 0, cycle |-> 1, results |-> <<>>]
    ELSE [start |-> f[1].next_start_index,
          cycle |-> f[1].last_completed_cycle + 1,
          results |-> f[1].results_so_far]

\* ------------------------------------------------------------ the search
NewStudy ==
    [waiting |-> NTrials, running |-> 0, complete |-> 0, pruned |-> 0,
     errors |-> 0, best_value |-> 0]

NoTrial == [result |-> "none", trained |-> "no", features_empty |-> FALSE,
            backtested |-> FALSE, value |-> 0]

\* _run_backtest_for_period as seen by _objective: the Sharpe ratio, which is
\* 0.0 when the test window yields no feature rows.
BacktestSharpe(features_empty, sharpe) ==
    IF features_empty THEN 0 ELSE sharpe

\* _objective after the shutdown check: train, then backtest.
Objective_RaisesOnTrainFailure(train_ok, features_empty, sharpe) ==
    IF ~train_ok
    THEN [result |-> "raised", trained |-> "failed", features_empty |-> FALSE,
          backtested |-> FALSE, value |-> 0]
    ELSE [result |-> "value", trained |-> "ok", features_empty |-> features_empty,
          backtested |-> TRUE, value |-> BacktestSharpe(features_empty, sharpe)]

Objective_BacktestsAnyway(train_ok, features_empty, sharpe) ==
    [result |-> "value", trained |-> IF train_ok THEN "ok" ELSE "failed",
     features_empty |-> features_empty,
     backtested |-> TRUE, value |-> BacktestSharpe(features_empty, sharpe)]

Objective(train_ok, features_empty, sharpe) ==
    IF ~train_ok
    THEN [result |-> "value", trained |-> "failed", features_empty |-> FALSE,
          backtested |-> FALSE, value |-> TrainFailScore]
    ELSE [result |-> "value", trained |-> "ok", features_empty |-> features_empty,
          backtested |-> TRUE, value |-> BacktestSharpe(features_empty, sharpe)]

Max(a, b) == IF a >= b THEN a ELSE b

\* study.best_value after one more COMPLETE trial with value v.
BestAfter(s, v) == IF s.complete = 0 THEN v ELSE Max(s.best_value, v)

\* ------------------------------------------------------------ the summary
\* run, lines 273-276: total_capital starts at 100.0 and is multiplied by
\* 1 + (capital - 100) / 100 for every result; kept in 1/1000.
RECURSIVE TotalCapital(_)
TotalCapital(results) ==
    IF results = <<>>
    THEN 100 * CapitalScale
    ELSE (TotalCapital(SubSeq(results, 1, Len(results) - 1))
              * (100 + (results[Len(results)].capital - 100))) \div 100

NoSummary == [kind |-> "none", cycles |-> 0, capital |-> 0]

\* run, lines 264-295: the closing banner, then either the warning that no
\* cycle was completed (and return), or the consolidated statistics with
\* the number of complete cycles and the final accumulated capital.
Summary(results) ==
    IF results = <<>>
    THEN [kind |-> "no_cycle_completed", cycles |-> 0, capital |-> 0]
    ELSE [kind |-> "full", cycles |-> Len(results),
          capital |-> TotalCapital(results)]

\* ------------------------------------------------------------------ Init
Running == {"start", "load", "loop", "search", "searched", "retrain", "report",
            "save", "end_exhausted", "end_shutdown"}
Terminal == {"insufficient", "done", "interrupted", "crashed"}

\* A component that this specification does not exercise.
NotRunning == [pc |-> "absent"]

FreshMemory == [start |-> 0, cycle |-> 1, results |-> <<>>]

DriverInit ==
    /\ n_total \in 0..MaxBars
    /\ train_size \in 1..MaxTrain
    /\ test_size \in 1..MaxTest
    /\ step_size \in 0..MaxStep
    /\ pc = "start"
    /\ shutdown_requested = FALSE
    /\ start_index = 0
    /\ cycle = 1
    /\ all_results = <<>>
    /\ final_model = 0
    /\ study = NewStudy
    /\ last_trial = NoTrial
    /\ state_file = <<>>
    /\ model_file = 0
    /\ scaler_file = 0
    /\ params_file = 0
    /\ uninterrupted = FreshMemory
    /\ signal_in_search = FALSE
    /\ resumed = FALSE
    /\ cycles_ended = 0
    /\ checkpoint_writes = 0
    /\ summary = NoSummary
    /\ lab = NotRunning
    /\ sim = NotRunning
    /\ acm = NotRunning

Init ==
    /\ DriverInit
    /\ io = NotRunning

\* --------------------------------------------------------------- actions
\* graceful_shutdown: the SIGINT/SIGTERM handler installed by __init__.
GracefulShutdown ==
    /\ pc \in Running
    /\ ~shutdown_requested
    /\ shutdown_requested' = TRUE
    /\ signal_in_search' = (signal_in_search \/ pc = "search")
    /\ UNCHANGED <<config, others, summary, pc, memory, study, last_trial, files,
                   uninterrupted, resumed, cycles_ended, checkpoint_writes>>

\* run, lines 168-175: the start-of-run size check.
InsufficientData_Never == FALSE

InsufficientData == n_total < train_size + test_size

CheckData ==
    /\ pc = "start"
    /\ pc' = IF InsufficientData THEN "insufficient" ELSE "load"
    /\ UNCHANGED <<config, others, summary, shutdown_requested, memory, study, last_trial, files, ghosts>>

\* run, lines 177-179: load the checkpoint, no model in memory yet.
LoadState ==
    /\ pc = "load"
    /\ IF LoadWfoStateRaises(state_file)
       THEN /\ pc' = "crashed"
            /\ UNCHANGED <<start_index, cycle, all_results, final_model, resumed>>
       ELSE /\ LET st == LoadWfoState(state_file) IN
                 /\ start_index' = st.start
                 /\ cycle' = st.cycle
                 /\ all_results' = st.results
            /\ final_model' = 0
            /\ resumed' = (state_file # <<>> /\ ~Unparsable(state_file))
            /\ pc' = "loop"
    /\ UNCHANGED <<config, others, summary, shutdown_requested, study, last_trial, files,
                   uninterrupted, signal_in_search, cycles_ended, checkpoint_writes>>

\* run, lines 186-187: the half-open index ranges of the two slices of the
\* cycle that starts at s.
TrainSlice(s) == [from |-> s, to |-> s + train_size]

TestSlice(s) == [from |-> s + train_size, to |-> s + train_size + test_size]

\* run, line 181: the while condition.
LoopContinues_TrainOnly(s) == s + train_size <= n_total

LoopContinues_Strict(s) == s + train_size + test_size < n_total

LoopContinues(s) == s + train_size + test_size <= n_total

\* run, lines 181-206: top of the loop.  The while condition is evaluated
\* before the shutdown check; a new cycle creates a fresh study.
LoopTop ==
    /\ pc = "loop"
    /\ IF ~LoopContinues(start_index)
       THEN pc' = "end_exhausted" /\ study' = study
       ELSE IF shutdown_requested
       THEN pc' = "end_shutdown" /\ study' = study
       ELSE /\ cycle <= MaxCycles
            /\ pc' = "search"
            /\ study' = NewStudy
    /\ UNCHANGED <<config, others, summary, shutdown_requested, memory, last_trial, files, ghosts>>

\* A worker takes the next trial (study.optimize, n_jobs=-1) and enters
\* _objective, lines 131-133.  With the flag set the trial raises TrialPruned,
\* the study records it as pruned and calls _progress_callback, lines 61-64,
\* whose study.best_value raises ValueError while no trial is complete.
PrunesTrial_Never == FALSE

PrunesTrial == shutdown_requested

TrialStart ==
    /\ pc = "search"
    /\ study.waiting > 0
    /\ IF PrunesTrial
       THEN /\ study' = IF study.complete = 0
                        THEN [study EXCEPT !.waiting = @ - 1, !.pruned = @ + 1,
                                           !.errors = @ + 1]
                        ELSE [study EXCEPT !.waiting = @ - 1, !.pruned = @ + 1]
            /\ last_trial' = [NoTrial EXCEPT !.result = "pruned"]
       ELSE /\ study' = [study EXCEPT !.waiting = @ - 1, !.running = @ + 1]
            /\ last_trial' = last_trial
    /\ UNCHANGED <<config, others, summary, pc, shutdown_requested, memory, files, ghosts>>

\* A running trial finishes _objective, lines 135-156: trainer.train, then the
\* backtest; the study records the value and calls _progress_callback, which
\* succeeds because this trial is complete.  An exception out of _objective
\* would be kept by the worker like the callback's.
TrialFinish ==
    /\ pc = "search"
    /\ study.running > 0
    /\ \E train_ok \in BOOLEAN, features_empty \in BOOLEAN, sharpe \in SharpeValues :
         LET r == Objective(train_ok, features_empty, sharpe) IN
           /\ last_trial' = r
           /\ study' = IF r.result = "value"
                       THEN [study EXCEPT !.running = @ - 1, !.complete = @ + 1,
                                          !.best_value = BestAfter(study, r.value)]
                       ELSE [study EXCEPT !.running = @ - 1, !.errors = @ + 1]
    /\ UNCHANGED <<config, others, summary, pc, shutdown_requested, memory, files, ghosts>>

\* study.optimize returns, lines 207-213: every trial has been run.  An
\* exception kept by one of the last workers is not looked at.
SearchDone_FirstComplete(s) == s.complete >= 1

SearchDone(s) == s.waiting = 0 /\ s.running = 0

SearchReturns ==
    /\ pc = "search"
    /\ SearchDone(study)
    /\ pc' = "searched"
    /\ UNCHANGED <<config, others, summary, shutdown_requested, memory, study, last_trial, files, ghosts>>

\* study.optimize re-raises a worker's exception once the running trials have
\* ended.  It is a ValueError, which `except TrialPruned`, lines 214-216, does
\* not catch: run() is left by the exception.
SearchRaises ==
    /\ pc = "search"
    /\ study.errors > 0
    /\ study.running = 0
    /\ pc' = "crashed"
    /\ UNCHANGED <<config, others, summary, shutdown_requested, memory, study, last_trial, files, ghosts>>

\* run, line 218.
BreaksAfterSearch_Never == FALSE

BreaksAfterSearch == shutdown_requested

\* run, line 228: the cycle is skipped when the best score is not positive.
SkipsCycle_Strict(best) == best < AcceptanceBar

SkipsCycle(best) == best <= AcceptanceBar

\* run, lines 230-233 and 243-246: the statement after the advance of a skipped
\* cycle is the _save_wfo_state call.
AfterSkip_Continue == "loop"

AfterSkip == "save"

\* start_index += step_size; cycle += 1 (lines 230-231, 243-244, 259-260).
Advance ==
    /\ start_index' = start_index + step_size
    /\ cycle' = cycle + 1
    /\ cycles_ended' = cycles_ended + 1
    /\ uninterrupted' = [uninterrupted EXCEPT !.start = @ + step_size, !.cycle = @ + 1,
                                              !.results = all_results']

\* run, lines 218-233: after the search.
AfterSearch ==
    /\ pc = "searched"
    /\ IF BreaksAfterSearch
       THEN /\ pc' = "end_shutdown"
            /\ UNCHANGED <<start_index, cycle, all_results, cycles_ended, uninterrupted>>
       ELSE IF SkipsCycle(study.best_value)
       THEN /\ all_results' = all_results
            /\ Advance
            /\ pc' = AfterSkip
       ELSE /\ pc' = "retrain"
            /\ UNCHANGED <<start_index, cycle, all_results, cycles_ended, uninterrupted>>
    /\ UNCHANGED <<config, others, summary, shutdown_requested, final_model, study, last_trial, files,
                   signal_in_search, resumed, checkpoint_writes>>

\* run, lines 235-246: train the final model of the cycle with the best
\* parameters; a failure skips the cycle.
Retrain ==
    /\ pc = "retrain"
    /\ \E train_ok \in BOOLEAN :
         IF train_ok
         THEN /\ final_model' = cycle
              /\ pc' = "report"
              /\ UNCHANGED <<start_index, cycle, all_results, cycles_ended, uninterrupted>>
         ELSE /\ final_model' = 0
              /\ all_results' = all_results
              /\ Advance
              /\ pc' = AfterSkip
    /\ UNCHANGED <<config, others, summary, shutdown_requested, study, last_trial, files,
                   signal_in_search, resumed, checkpoint_writes>>

\* run, lines 248-260: the reporting backtest, the result appended, the advance.
Report ==
    /\ pc = "report"
    /\ \E capital \in Capitals :
         all_results' = Append(all_results,
                               [period |-> start_index + train_size, capital |-> capital])
    /\ Advance
    /\ pc' = "save"
    /\ UNCHANGED <<config, others, summary, shutdown_requested, final_model, study, last_trial, files,
                   signal_in_search, resumed, checkpoint_writes>>

\* run, lines 232, 245, 262: _save_wfo_state(cycle, start_index, all_results).
SaveState ==
    /\ pc = "save"
    /\ state_file' = SaveWfoState(cycle, start_index, all_results)
    /\ checkpoint_writes' = checkpoint_writes + 1
    /\ pc' = "loop"
    /\ UNCHANGED <<config, others, summary, shutdown_requested, memory, study, last_trial,
                   model_file, scaler_file, params_file,
                   uninterrupted, signal_in_search, resumed, cycles_ended>>

\* run, lines 264-299: after the loop.  With no results run() returns at once;
\* otherwise the summary, then save_model when the last retraining succeeded.
\* Nothing writes STRATEGY_PARAMS_FILE.
EndOfRun ==
    /\ pc \in {"end_exhausted", "end_shutdown"}
    /\ pc' = IF pc = "end_exhausted" THEN "done" ELSE "interrupted"
    /\ IF all_results # <<>> /\ final_model # 0
       THEN model_file' = final_model /\ scaler_file' = final_model
       ELSE UNCHANGED <<model_file, scaler_file>>
    /\ summary' = Summary(all_results)
    /\ UNCHANGED <<config, others, shutdown_requested, memory, study, last_trial,
                   state_file, params_file, ghosts>>

\* main.py, lines 40-41: the program is started again on the same dataset and
\* configuration; the files are what the previous process left.
NewProcess ==
    /\ pc' = "start"
    /\ shutdown_requested' = FALSE
    /\ start_index' = 0
    /\ cycle' = 1
    /\ all_results' = <<>>
    /\ final_model' = 0
    /\ study' = NewStudy
    /\ last_trial' = NoTrial
    /\ signal_in_search' = FALSE
    /\ resumed' = FALSE
    /\ cycles_ended' = 0
    /\ checkpoint_writes' = 0
    /\ summary' = NoSummary
    /\ UNCHANGED <<config, others, files, uninterrupted>>

Restart ==
    /\ pc \in Terminal
    /\ NewProcess

Next ==
    \/ GracefulShutdown
    \/ CheckData
    \/ LoadState
    \/ LoopTop
    \/ TrialStart
    \/ TrialFinish
    \/ SearchReturns
    \/ SearchRaises
    \/ AfterSearch
    \/ Retrain
    \/ Report
    \/ SaveState
    \/ EndOfRun
    \/ Restart

Spec == Init /\ [][Next]_vars

\* ================================================================ claims
AfterLoad == pc \notin {"start", "load", "insufficient"}

\* C1: a process restarted after the checkpoint of cycle K resumes at cycle
\* K+1 with the start offset and the results list the uninterrupted run has at
\* that point, and every cycle, before or after a restart, starts at the offset
\* (cycle - 1) * step_size the uninterrupted run uses for it.
C1_ResumeEqualsUninterrupted ==
    AfterLoad =>
        /\ start_index = uninterrupted.start
        /\ cycle = uninterrupted.cycle
        /\ all_results = uninterrupted.results
        /\ start_index = (cycle - 1) * step_size

C1_Witness ==
    /\ resumed
    /\ pc = "search"
    /\ cycle >= 2
    /\ all_results # <<>>
    /\ step_size >= 1

\* C2: every cycle that ends, recorded or skipped, is followed by exactly one
\* checkpoint write, made after the search, the retraining and the reporting
\* backtest of the cycle and before the next cycle starts: outside the save
\* step the writes of this process equal its ended cycles, and the file holds
\* the state the cycle ended with.
C2_OneCheckpointPerCycle ==
    /\ checkpoint_writes = cycles_ended - (IF pc = "save" THEN 1 ELSE 0)
    /\ pc = "save" => study.waiting = 0 /\ study.running = 0
    /\ (pc = "loop" /\ cycles_ended > 0) =>
           state_file = <<[last_completed_cycle |-> cycle - 1,
                           next_start_index |-> start_index,
                           results_so_far |-> all_results]>>

C2_Witness ==
    /\ pc = "loop"
    /\ cycles_ended = 2
    /\ checkpoint_writes = 2
    /\ Len(all_results) = 1

\* C3: once the shutdown flag is set during a search, the process only leaves
\* the loop: it appends no result and writes no checkpoint, so the checkpoint
\* still loads as the interrupted cycle with its own start offset.
C3_InterruptedSearchKeepsCheckpoint ==
    signal_in_search =>
        /\ pc \in {"search", "searched", "end_shutdown", "interrupted", "crashed"}
        /\ checkpoint_writes = cycles_ended
        /\ LoadWfoState(state_file) =
               [start |-> start_index, cycle |-> cycle, results |-> all_results]

C3_Witness ==
    /\ signal_in_search
    /\ pc = "interrupted"
    /\ study.pruned > 0
    /\ cycle >= 2
    /\ state_file # <<>>
    /\ state_file[1].last_completed_cycle = cycle - 1

\* C4: run() is never left by an uncaught exception, whatever the interleaving
\* of the shutdown signal with the trials of a cycle.
C4_NoUncaughtException == pc # "crashed"

\* C5: started with no checkpoint on a dataset of exactly train_size +
\* test_size bars, a run that is not asked to shut down ends in Done after
\* exactly one cycle, and with a positive step no second cycle is ever run.
C5_ExactDatasetOneCycle ==
    (AfterLoad /\ ~resumed /\ n_total = train_size + test_size) =>
        /\ (pc \in Terminal /\ ~shutdown_requested) => (pc = "done" /\ cycles_ended = 1)
        /\ pc = "done" => cycles_ended = 1
        /\ step_size >= 1 => cycles_ended <= 1

C5_Witness ==
    /\ ~resumed
    /\ n_total = train_size + test_size
    /\ step_size >= 1
    /\ ~shutdown_requested
    /\ pc = "done"
    /\ cycles_ended = 1

\* C6: for every configuration that passes the start-of-run check, every
\* completed or skipped cycle moves the start offset strictly forward (which is
\* what makes the loop end).
C6_EveryCycleMovesForward ==
    [][(pc \in {"searched", "retrain", "report"} /\ cycle' = cycle + 1) =>
           start_index' > start_index]_vars

\* C7: a cycle whose best score exceeds the acceptance bar and whose final
\* retraining succeeds has its model, its scaler and its strategy parameters
\* persisted once the cycle has ended.
C7_ArtifactsPersisted ==
    (pc = "loop" /\ final_model # 0) =>
        /\ model_file = final_model
        /\ scaler_file = final_model
        /\ params_file = final_model

\* C8: the step taken after a search whose best score does not exceed the
\* acceptance bar appends no result and persists no model, advances the start
\* offset by the step and the cycle index by one, and goes on to the
\* checkpoint write of the cycle instead of leaving the loop.
C8_SkippedCycleAdvances ==
    [][(/\ pc = "searched"
        /\ pc' # "searched"
        /\ ~shutdown_requested
        /\ study.best_value <= AcceptanceBar) =>
           /\ all_results' = all_results
           /\ model_file' = model_file
           /\ scaler_file' = scaler_file
           /\ params_file' = params_file
           /\ final_model' = final_model
           /\ start_index' = start_index + step_size
           /\ cycle' = cycle + 1
           /\ pc' = "save"]_vars

C8_Witness ==
    /\ pc = "save"
    /\ study.complete = NTrials
    /\ study.best_value <= AcceptanceBar
    /\ cycle = 2
    /\ start_index = step_size
    /\ all_results = <<>>

\* C9: a trial whose training or backtest fails hands a score to the search;
\* the driver is never left by an exception because of it, and a search that
\* is not shut down returns only when every trial of the cycle is complete.
C9_TrialFailureIsAScore ==
    /\ (last_trial.trained = "failed" \/ last_trial.features_empty) =>
           last_trial.result = "value"
    /\ pc = "crashed" => shutdown_requested
    /\ (pc \in {"searched", "retrain", "report", "save"} /\ ~shutdown_requested) =>
           (study.complete = NTrials /\ study.errors = 0)

C9_Witness ==
    /\ pc = "searched"
    /\ ~shutdown_requested
    /\ study.complete = NTrials
    /\ study.best_value = TrainFailScore
    /\ last_trial.trained = "ok"

\* C10: when the trainer returns (None, None), _objective returns the fixed
\* negative sentinel score, does not raise and does not run the backtest.
C10_TrainFailureSentinel ==
    last_trial.trained = "failed" =>
        /\ last_trial.result = "value"
        /\ last_trial.value = TrainFailScore
        /\ last_trial.value < 0
        /\ ~last_trial.backtested

C10_Witness ==
    /\ pc = "search"
    /\ last_trial.trained = "failed"
    /\ study.complete >= 1
    /\ study.best_value = TrainFailScore

\* C11: a trial whose test window yields no feature rows returns the same
\* negative sentinel score as a trial whose training failed.
C11_EmptyWindowSentinel ==
    (last_trial.result = "value" /\ last_trial.features_empty) =>
        last_trial.value = TrainFailScore

(***************************************************************************)
(* The simulators: run_backtest (src/src/backtest.py),                     *)
(* WalkForwardOptimizer._run_backtest_for_period (src/src/optimizer.py)    *)
(* and the loop of QuickTester.run (src/src/quick_tester.py), with the     *)
(* AdaptiveConfidenceManager (src/src/confidence_manager.py) the last one  *)
(* consults.                                                               *)
(*                                                                         *)
(* Fixed point replaces the code's doubles.  Money is in 1/10000 of a      *)
(* currency unit, probabilities and confidence thresholds in millionths,   *)
(* trade returns in 1/10000, rates as 1/denominator.  A market price K     *)
(* is K * SlippageDen ticks, so that the prices with slippage are whole    *)
(* numbers of ticks.  Products are exact and quotients are rounded down.   *)
(***************************************************************************)
\* ------------------------------------------------------- program constants
FeeDen == 1000
SlippageDen == 2000
InitialCapital == 1000000
QuickInitialCapital == 10000000
MinTrade == 100000
One == 1000000
PnlScale == 10000
PnlClamp == 200
MinConfidence == 505000
MaxConfidence == 850000

\* ------------------------------------------------------------ arithmetic
Min(a, b) == IF a <= b THEN a ELSE b

\* np.clip(x, lo, hi) = minimum(maximum(x, lo), hi)
Clip(x, lo, hi) == Min(Max(x, lo), hi)

Sign(x) == IF x > 0 THEN 1 ELSE IF x < 0 THEN -1 ELSE 0

\* Quotient and remainder of a * b by c for a, b >= 0 and c > 0, by halving
\* b, so that no intermediate value needs more than 32 bits.
RECURSIVE MulDivQR(_, _, _)
MulDivQR(a, b, c) ==
    IF b = 0
    THEN <<0, 0>>
    ELSE LET h == MulDivQR(a, b \div 2, c)
             q2 == (2 * h[1]) + ((2 * h[2]) \div c)
             r2 == (2 * h[2]) % c
         IN  IF b % 2 = 0
             THEN <<q2, r2>>
             ELSE <<q2 + (a \div c) + ((r2 + (a % c)) \div c), (r2 + (a % c)) % c>>

Abs(x) == IF x < 0 THEN -x ELSE x

\* a * b / c for c > 0, rounded towards 0; the operands are taken as values
\* first.
MulDiv(a, b, c) ==
    LET v == CHOOSE t \in {<<a, b, c>>} : TRUE
    IN  Sign(v[1]) * Sign(v[2]) * MulDivQR(Abs(v[1]), Abs(v[2]), v[3])[1]

\* x * (1 - 1/den), for the fee.
LessRate_Free(x, den) == x

LessRate(x, den) == x - (x \div den)

\* Prices in ticks: at the market, and with slippage on either side.
Market(K) == K * SlippageDen
BuyWithSlippage(K) == K * (SlippageDen + 1)
SellWithSlippage(K) == K * (SlippageDen - 1)

\* btc_amount is kept as the money converted and the price, in ticks, it was
\* converted at; btc_amount * p is then usdt * p / at.
NoBtc == [usdt |-> 0, at |-> 1]

Worth(btc, p) == MulDiv(btc.usdt, p, btc.at)

\* (price / buy_price) - 1 >= threshold and <= -threshold, with the threshold
\* in 1/1000: compared exactly, prices in ticks.
PnlAtLeast(p, buy, th) == (p - buy) * 1000 >= th * buy

PnlAtMost_Strict(p, buy, th) == (p - buy) * 1000 < -(th * buy)

PnlAtMost(p, buy, th) == (p - buy) * 1000 <= -(th * buy)

\* (sell_price / buy_price) - 1 in 1/PnlScale.
PnlOf(sell, buy) == ((sell - buy) * PnlScale) \div buy

\* -------------------------------------------------- confidence controller
\* AdaptiveConfidenceManager.__init__
NewConfidenceManager(initial_confidence, learning_rate) ==
    [current_confidence |-> initial_confidence,
     learning_rate |-> learning_rate,
     min_confidence |-> MinConfidence,
     max_confidence |-> MaxConfidence,
     trade_count |-> 0]

\* AdaptiveConfidenceManager.update: learning_rate is in 1/100, so that
\* learning_rate * clamped_pnl is in millionths.
Update_NoFinalClip(m, pnl_percent) ==
    LET clamped_pnl == Clip(pnl_percent, -PnlClamp, PnlClamp)
        adjustment == m.learning_rate * clamped_pnl
    IN  [m EXCEPT !.trade_count = @ + 1,
                  !.current_confidence = @ - adjustment]

Update_NoPnlClamp(m, pnl_percent) ==
    LET adjustment == m.learning_rate * pnl_percent
        new_confidence == m.current_confidence - adjustment
    IN  [m EXCEPT !.trade_count = @ + 1,
                  !.current_confidence =
                      Clip(new_confidence, m.min_confidence, m.max_confidence)]

Update(m, pnl_percent) ==
    LET clamped_pnl == Clip(pnl_percent, -PnlClamp, PnlClamp)
        adjustment == m.learning_rate * clamped_pnl
        new_confidence == m.current_confidence - adjustment
    IN  [m EXCEPT !.trade_count = @ + 1,
                  !.current_confidence =
                      Clip(new_confidence, m.min_confidence, m.max_confidence)]

\* AdaptiveConfidenceManager.get_confidence
GetConfidence_Floor(m) == m.min_confidence

GetConfidence(m) == m.current_confidence

\* ------------------------------------------------------------- simulators
\* bounds
MaxSimBars == 3

PriceLevels == {19, 20, 21}

\* The closes of a window: only the ratios of the prices enter the
\* simulation, so every window opens at the middle level.
PricePaths(n) == {q \in [1..n -> PriceLevels] : n >= 1 => q[1] = 20}

\* predict_proba of one bar: the classes Upside (buy) and Downside (sell).
Signals ==
    {[buy |-> 0, sell |-> 0], [buy |-> 700000, sell |-> 0],
     [buy |-> One, sell |-> 0], [buy |-> 0, sell |-> One]}

\* strategy_params: thresholds in 1/1000, risk in 1/10000, learning rate in
\* 1/100.  The last one carries the default RISK_PER_TRADE_PCT.
Strategies ==
    {[prediction_confidence |-> 600000, initial_confidence |-> 600000,
      profit_threshold |-> 30, stop_loss_threshold |-> 30,
      risk_per_trade_pct |-> 5000, confidence_learning_rate |-> 5],
     [prediction_confidence |-> 900000, initial_confidence |-> 800000,
      profit_threshold |-> 80, stop_loss_threshold |-> 80,
      risk_per_trade_pct |-> 5000, confidence_learning_rate |-> 50],
     [prediction_confidence |-> 600000, initial_confidence |-> 600000,
      profit_threshold |-> 30, stop_loss_threshold |-> 0,
      risk_per_trade_pct |-> 5000, confidence_learning_rate |-> 5],
     [prediction_confidence |-> 600000, initial_confidence |-> 510000,
      profit_threshold |-> 30, stop_loss_threshold |-> 30,
      risk_per_trade_pct |-> 200, confidence_learning_rate |-> 50],
     [prediction_confidence |-> 600000, initial_confidence |-> 705000,
      profit_threshold |-> 30, stop_loss_threshold |-> 30,
      risk_per_trade_pct |-> 6660, confidence_learning_rate |-> 50]}

Kinds == {"run_backtest", "_run_backtest_for_period", "QuickTester.run"}

Pending == [pending |-> TRUE]

\* The locals of a simulation before its first bar.  log is a history of the
\* conversions made: side, market price level and the money given (buy) or
\* received (sell, liquidate).
NewSimulation(kind, prices, signals, params) ==
    [kind |-> kind, prices |-> prices, signals |-> signals, params |-> params,
     i |-> 1,
     capital |-> IF kind = "QuickTester.run" THEN QuickInitialCapital
                 ELSE InitialCapital,
     btc_amount |-> NoBtc,
     in_position |-> FALSE,
     buy_price |-> 0,
     trade_count |-> 0,
     portfolio_values |-> <<>>,
     log |-> <<>>,
     confidence_manager |->
         IF kind = "QuickTester.run"
         THEN NewConfidenceManager(params.initial_confidence,
                                   params.confidence_learning_rate)
         ELSE NotRunning,
     pc |-> "loop",
     result |-> Pending]

\* The entry condition: the buy probability exceeds the threshold.
EntrySignal_Ignored(proba, threshold) == TRUE

EntrySignal_Certain(proba, threshold) == proba >= One

EntrySignal(proba, threshold) == proba > threshold

\* dynamic_risk_pct = base_risk * (0.5 + signal_strength), in 1/10000, with
\* signal_strength = (conviction - min_conf) / (1.0 - min_conf).
DynamicRiskPct_Unbounded(base_risk, conv, min_conf) ==
    MulDiv(base_risk, 3 * (One - min_conf) + 2 * (conv - min_conf),
           2 * (One - min_conf))

DynamicRiskPct(base_risk, conv, min_conf) ==
    MulDiv(base_risk, (One - min_conf) + 2 * (conv - min_conf),
           2 * (One - min_conf))

TradeSizeUsdt(cash, dynamic_risk_pct) == MulDiv(cash, dynamic_risk_pct, 10000)

\* pct_change().dropna() of the portfolio values, in millionths.
PctChange(v0, v1) == MulDiv(v1 - v0, One, v0)

Returns(values) ==
    [t \in 1..(Len(values) - 1) |-> PctChange(values[t], values[t + 1])]

\* returns.std() == 0: all the returns are the same number; the quotients
\* values[t+1] / values[t] are compared exactly.
SameReturn(values, t, u) ==
    MulDivQR(values[t + 1], values[u], values[t]) = <<values[u + 1], 0>>

StdIsZero(values) ==
    /\ Len(values) >= 2
    /\ \A t \in 1..(Len(values) - 1) : SameReturn(values, t, 1)

RECURSIVE SumSeq(_)
SumSeq(q) == IF q = <<>> THEN 0 ELSE Head(q) + SumSeq(Tail(q))

\* The Sharpe ratio of the returns of a value series.  Only its sign is
\* modelled where it is mean / std * sqrt(525600): std is positive there, so
\* the sign is the sign of the sum of the returns.
CalculateSharpeRatio_NoGuard(values) == Sign(SumSeq(Returns(values)))

CalculateSharpeRatio(values) ==
    IF StdIsZero(values) \/ Len(Returns(values)) < 2
    THEN 0
    ELSE Sign(SumSeq(Returns(values)))

\* The driver's variables in the specifications of the components.
driver_but_io == <<config, pc, shutdown_requested, memory, study, last_trial, files, summary, ghosts>>

driver == <<driver_but_io, io>>

DriverAbsent ==
    /\ n_total = 0 /\ train_size = 1 /\ test_size = 1 /\ step_size = 1
    /\ pc = "absent"
    /\ shutdown_requested = FALSE
    /\ start_index = 0 /\ cycle = 1 /\ all_results = <<>> /\ final_model = 0
    /\ study = NewStudy
    /\ last_trial = NoTrial
    /\ state_file = <<>> /\ model_file = 0 /\ scaler_file = 0 /\ params_file = 0
    /\ uninterrupted = FreshMemory
    /\ signal_in_search = FALSE /\ resumed = FALSE
    /\ cycles_ended = 0 /\ checkpoint_writes = 0
    /\ summary = NoSummary
    /\ io = NotRunning

SimInit ==
    /\ DriverAbsent
    /\ lab = NotRunning
    /\ acm = NotRunning
    /\ \E kind \in Kinds, n \in 0..MaxSimBars, params \in Strategies :
        \E prices \in PricePaths(n) :
            \E signals \in [1..n -> IF kind = "_run_backtest_for_period"
                                    THEN Signals
                                    ELSE {g \in Signals : g.sell = 0}] :
                sim = NewSimulation(kind, prices, signals, params)

\* trade_count + 1 when a position is closed.
CountClose_NotCounted(n) == n

CountClose(n) == n + 1

\* portfolio_values.append(value), once in every iteration.
Record_OnlyChanges(values, v) ==
    IF values # <<>> /\ values[Len(values)] = v THEN values ELSE Append(values, v)

Record(values, v) == Append(values, v)

\* The close of the bar the simulation is at.
BarPrice_Peek(s) == s.prices[IF s.i < Len(s.prices) THEN s.i + 1 ELSE s.i]

BarPrice(s) == s.prices[s.i]

\* run_backtest, lines 46-88: one bar.  The portfolio value is recorded
\* before the bar's exit or entry.
RunBacktest_Step(s) ==
    LET K == BarPrice(s)
        proba == s.signals[s.i].buy
        P == s.params
        recorded == Record(s.portfolio_values,
                           s.capital + Worth(s.btc_amount, Market(K)))
        exits == IF s.buy_price > 0
                 THEN \/ PnlAtLeast(Market(K), s.buy_price, P.profit_threshold)
                      \/ PnlAtMost(Market(K), s.buy_price, P.stop_loss_threshold)
                 ELSE 0 >= P.profit_threshold \/ 0 <= -P.stop_loss_threshold
        trade_size_usdt ==
            TradeSizeUsdt(s.capital,
                DynamicRiskPct(P.risk_per_trade_pct, proba, P.prediction_confidence))
    IN
          IF s.in_position
          THEN IF exits
               THEN [s EXCEPT
                       !.capital = @ + LessRate(Worth(s.btc_amount, SellWithSlippage(K)), FeeDen),
                       !.log = Append(@, [side |-> "sell", price |-> K, usdt |->
                                  LessRate(Worth(s.btc_amount, SellWithSlippage(K)), FeeDen)]),
                       !.btc_amount = NoBtc,
                       !.in_position = FALSE,
                       !.trade_count = CountClose(@),
                       !.portfolio_values = recorded,
                       !.i = @ + 1]
               ELSE [s EXCEPT !.portfolio_values = recorded, !.i = @ + 1]
          ELSE IF EntrySignal(proba, P.prediction_confidence)
                  /\ s.capital > MinTrade /\ trade_size_usdt > MinTrade
               THEN [s EXCEPT
                       !.btc_amount = [usdt |-> trade_size_usdt, at |-> BuyWithSlippage(K)],
                       !.log = Append(@, [side |-> "buy", price |-> K, usdt |-> trade_size_usdt]),
                       !.capital = @ - (trade_size_usdt + (trade_size_usdt \div FeeDen)),
                       !.buy_price = BuyWithSlippage(K),
                       !.in_position = TRUE,
                       !.trade_count = @ + 1,
                       !.portfolio_values = recorded,
                       !.i = @ + 1]
               ELSE [s EXCEPT !.portfolio_values = recorded, !.i = @ + 1]

RunBacktest_Bar ==
    /\ sim.kind = "run_backtest"
    /\ sim.pc = "loop"
    /\ sim.i <= Len(sim.prices)
    /\ sim' = RunBacktest_Step(sim)
    /\ UNCHANGED <<driver, lab, acm>>

\* run_backtest, lines 90-118: forced liquidation, then the metrics.  An
\* empty list of portfolio values returns the Sharpe ratio -1.0.
RunBacktest_Return ==
    /\ sim.kind = "run_backtest"
    /\ sim.pc = "loop"
    /\ sim.i > Len(sim.prices)
    /\ LET last_price == sim.prices[Len(sim.prices)]
           capital == IF sim.in_position
                      THEN sim.capital
                           + LessRate(Worth(sim.btc_amount, SellWithSlippage(last_price)), FeeDen)
                      ELSE sim.capital
       IN  sim' = [sim EXCEPT
                     !.capital = capital,
                     !.log = IF sim.in_position
                             THEN Append(@, [side |-> "liquidate", price |-> last_price,
                                             usdt |-> capital - sim.capital])
                             ELSE @,
                     !.pc = "returned",
                     !.result =
                         IF sim.portfolio_values = <<>>
                         THEN [capital |-> capital, sharpe_ratio |-> -1]
                         ELSE [capital |-> capital,
                               sharpe_ratio |-> CalculateSharpeRatio(sim.portfolio_values)]]
    /\ UNCHANGED <<driver, lab, acm>>

\* _run_backtest_for_period, lines 100-120: one bar.  The whole capital is
\* converted, with the fee and without slippage; the portfolio value is
\* recorded after the bar's exit or entry.
RunBacktestForPeriod_Step(s) ==
    LET K == BarPrice(s)
        buy_proba == s.signals[s.i].buy
        sell_proba == s.signals[s.i].sell
        P == s.params
        exits == \/ PnlAtLeast(Market(K), s.buy_price, P.profit_threshold)
                 \/ PnlAtMost(Market(K), s.buy_price, P.stop_loss_threshold)
                 \/ sell_proba > P.prediction_confidence
        after ==
          IF s.in_position
          THEN IF exits
               THEN [s EXCEPT
                       !.capital = @ + LessRate(Worth(s.btc_amount, Market(K)), FeeDen),
                       !.log = Append(@, [side |-> "sell", price |-> K, usdt |->
                                  LessRate(Worth(s.btc_amount, Market(K)), FeeDen)]),
                       !.btc_amount = NoBtc,
                       !.in_position = FALSE,
                       !.trade_count = CountClose(@)]
               ELSE s
          ELSE IF EntrySignal(buy_proba, P.prediction_confidence) /\ s.capital > MinTrade
               THEN [s EXCEPT
                       !.btc_amount = [usdt |-> LessRate(s.capital, FeeDen), at |-> Market(K)],
                       !.log = Append(@, [side |-> "buy", price |-> K, usdt |-> s.capital]),
                       !.capital = 0,
                       !.buy_price = Market(K),
                       !.in_position = TRUE,
                       !.trade_count = @ + 1]
               ELSE s
    IN  [after EXCEPT
                  !.portfolio_values =
                      Record(@, after.capital + Worth(after.btc_amount, Market(K))),
                  !.i = @ + 1]

RunBacktestForPeriod_Bar ==
    /\ sim.kind = "_run_backtest_for_period"
    /\ sim.pc = "loop"
    /\ sim.i <= Len(sim.prices)
    /\ sim' = RunBacktestForPeriod_Step(sim)
    /\ UNCHANGED <<driver, lab, acm>>

\* _run_backtest_for_period, lines 84-87 and 122-128: the early return for a
\* window without feature rows, else forced liquidation and the metrics.
RunBacktestForPeriod_Return ==
    /\ sim.kind = "_run_backtest_for_period"
    /\ sim.pc = "loop"
    /\ sim.i > Len(sim.prices)
    /\ LET last_price == sim.prices[Len(sim.prices)]
           capital == IF sim.in_position
                      THEN sim.capital + LessRate(Worth(sim.btc_amount, Market(last_price)), FeeDen)
                      ELSE sim.capital
       IN  sim' = [sim EXCEPT
                     !.capital = capital,
                     !.log = IF sim.in_position
                             THEN Append(@, [side |-> "liquidate", price |-> last_price,
                                             usdt |-> capital - sim.capital])
                             ELSE @,
                     !.pc = "returned",
                     !.result =
                         IF Len(sim.prices) = 0
                         THEN [capital |-> InitialCapital, trade_count |-> 0,
                               sharpe_ratio |-> 0]
                         ELSE [capital |-> capital, trade_count |-> sim.trade_count,
                               sharpe_ratio |-> CalculateSharpeRatio(sim.portfolio_values)]]
    /\ UNCHANGED <<driver, lab, acm>>

\* QuickTester.run, lines 124-163: one bar.  The entry threshold is the
\* confidence manager's, which is updated with the return of every closed
\* trade; trade_count is the running sum of trade_executed.
QuickTesterRun_Step(s) ==
    LET K == BarPrice(s)
        conviction == s.signals[s.i].buy
        P == s.params
        current_confidence_threshold == GetConfidence(s.confidence_manager)
        exits == IF s.buy_price > 0
                 THEN \/ PnlAtLeast(Market(K), s.buy_price, P.profit_threshold)
                      \/ PnlAtMost(Market(K), s.buy_price, P.stop_loss_threshold)
                 ELSE 0 >= P.profit_threshold \/ 0 <= -P.stop_loss_threshold
        trade_size_usdt ==
            TradeSizeUsdt(s.capital,
                DynamicRiskPct(P.risk_per_trade_pct, conviction,
                               current_confidence_threshold))
        after ==
          IF s.in_position
          THEN IF exits
               THEN [s EXCEPT
                       !.capital = @ + LessRate(Worth(s.btc_amount, SellWithSlippage(K)), FeeDen),
                       !.log = Append(@, [side |-> "sell", price |-> K, usdt |->
                                  LessRate(Worth(s.btc_amount, SellWithSlippage(K)), FeeDen)]),
                       !.confidence_manager =
                           Update(@, PnlOf(SellWithSlippage(K), s.buy_price)),
                       !.btc_amount = NoBtc,
                       !.in_position = FALSE,
                       !.trade_count = CountClose(@)]
               ELSE s
          ELSE IF EntrySignal(conviction, current_confidence_threshold)
                  /\ s.capital > MinTrade /\ trade_size_usdt > MinTrade
               THEN [s EXCEPT
                       !.btc_amount = [usdt |-> trade_size_usdt, at |-> BuyWithSlippage(K)],
                       !.log = Append(@, [side |-> "buy", price |-> K, usdt |-> trade_size_usdt]),
                       !.capital = @ - (trade_size_usdt + (trade_size_usdt \div FeeDen)),
                       !.buy_price = BuyWithSlippage(K),
                       !.in_position = TRUE,
                       !.trade_count = @ + 1]
               ELSE s
    IN  [after EXCEPT
                  !.portfolio_values =
                      Record(@, after.capital + Worth(after.btc_amount, Market(K))),
                  !.i = @ + 1]

QuickTesterRun_Bar ==
    /\ sim.kind = "QuickTester.run"
    /\ sim.pc = "loop"
    /\ sim.i <= Len(sim.prices)
    /\ sim' = QuickTesterRun_Step(sim)
    /\ UNCHANGED <<driver, lab, acm>>

\* QuickTester.run, line 165, and generate_report: the loop is followed by
\* the report only; the final capital reported is the last recorded value.
\* Without rows there is no report.
QuickTesterRun_Report ==
    /\ sim.kind = "QuickTester.run"
    /\ sim.pc = "loop"
    /\ sim.i > Len(sim.prices)
    /\ sim' = [sim EXCEPT
                 !.pc = "returned",
                 !.result =
                     IF sim.portfolio_values = <<>>
                     THEN [reported |-> FALSE]
                     ELSE [reported |-> TRUE,
                           initial |-> sim.portfolio_values[1],
                           final |-> sim.portfolio_values[Len(sim.portfolio_values)],
                           total_trades |-> sim.trade_count]]
    /\ UNCHANGED <<driver, lab, acm>>

SimNext ==
    \/ RunBacktest_Bar
    \/ RunBacktest_Return
    \/ RunBacktestForPeriod_Bar
    \/ RunBacktestForPeriod_Return
    \/ QuickTesterRun_Bar
    \/ QuickTesterRun_Report

SpecSim == SimInit /\ [][SimNext]_vars

\* The simulation has returned.
Returned == sim.pc = "returned"

\* _objective, lines 154-156: the score of a trained trial is the Sharpe
\* ratio its backtest returned.
ObjectiveScore(result) == result.sharpe_ratio

\* C12: a trial whose backtest made zero trades and ended with the starting
\* capital gets a strictly negative score from the objective, not 0.  The
\* window has feature rows here; the window without is C11's.
C12_ZeroTradesPenalised ==
    (/\ Returned
     /\ sim.kind = "_run_backtest_for_period"
     /\ Len(sim.prices) >= 1
     /\ sim.result.trade_count = 0
     /\ sim.result.capital = InitialCapital) =>
        ObjectiveScore(sim.result) < 0

(***************************************************************************)
(* The labeler: create_labels_triple_barrier (src/src/model_trainer.py).   *)
(* The arrays are functions on 0..n-1, as in the code; prices, volatility  *)
(* and multipliers are whole numbers.  reads collects every index the call *)
(* reads from its arrays.                                                  *)
(***************************************************************************)
\* bounds
MaxLen == 3
MaxH == 3

\* One bar: close, high, low.
Bars ==
    {[close |-> 10, high |-> 10, low |-> 10],
     [close |-> 10, high |-> 12, low |-> 10],
     [close |-> 10, high |-> 10, low |-> 8],
     [close |-> 10, high |-> 12, low |-> 8],
     [close |-> 11, high |-> 11, low |-> 11],
     [close |-> 9, high |-> 9, low |-> 9]}

AtrValues == {0, 1}

\* profit_multiplier, stop_multiplier
Multipliers == {<<1, 1>>, <<2, 2>>, <<1, 2>>}

\* for i in range(n - future_periods)
InRange_WholeSeries(L, i) == i < L.n

InRange(L, i) == i < L.n - L.future_periods

\* if atr[i] == 0: continue
SkipsBar_Never(a) == FALSE

SkipsBar(a) == a = 0

ProfitBarrier(L, i) == L.closes[i] + (L.atr[i] * L.profit_multiplier)
StopBarrier(L, i) == L.closes[i] - (L.atr[i] * L.stop_multiplier)

\* An element of an array; the index is in the array wherever the code
\* reads (C15), else the value is not the array's.
Get(arr, k) == IF k \in DOMAIN arr THEN arr[k] ELSE 0

\* The inner loop from j on: the label of the first bar that touches a
\* barrier, the high tested before the low, or no hit after future_periods.
RECURSIVE Scan_LastTouch(_, _, _)
Scan_LastTouch(L, i, j) ==
    IF j > L.future_periods
    THEN [hit |-> FALSE, label |-> 0, reads |-> {}]
    ELSE LET rest == Scan_LastTouch(L, i, j + 1)
         IN  IF rest.hit
             THEN [rest EXCEPT !.reads = @ \cup {i + j}]
             ELSE IF Get(L.highs, i + j) >= ProfitBarrier(L, i)
             THEN [hit |-> TRUE, label |-> 1, reads |-> rest.reads \cup {i + j}]
             ELSE IF Get(L.lows, i + j) <= StopBarrier(L, i)
             THEN [hit |-> TRUE, label |-> 2, reads |-> rest.reads \cup {i + j}]
             ELSE [rest EXCEPT !.reads = @ \cup {i + j}]

RECURSIVE Scan_StopFirst(_, _, _)
Scan_StopFirst(L, i, j) ==
    IF j > L.future_periods
    THEN [hit |-> FALSE, label |-> 0, reads |-> {}]
    ELSE IF Get(L.lows, i + j) <= StopBarrier(L, i)
    THEN [hit |-> TRUE, label |-> 2, reads |-> {i + j}]
    ELSE IF Get(L.highs, i + j) >= ProfitBarrier(L, i)
    THEN [hit |-> TRUE, label |-> 1, reads |-> {i + j}]
    ELSE LET rest == Scan_StopFirst(L, i, j + 1)
         IN  [rest EXCEPT !.reads = @ \cup {i + j}]

RECURSIVE Scan(_, _, _)
Scan(L, i, j) ==
    IF j > L.future_periods
    THEN [hit |-> FALSE, label |-> 0, reads |-> {}]
    ELSE IF Get(L.highs, i + j) >= ProfitBarrier(L, i)
    THEN [hit |-> TRUE, label |-> 1, reads |-> {i + j}]
    ELSE IF Get(L.lows, i + j) <= StopBarrier(L, i)
    THEN [hit |-> TRUE, label |-> 2, reads |-> {i + j}]
    ELSE LET rest == Scan(L, i, j + 1)
         IN  [rest EXCEPT !.reads = @ \cup {i + j}]

\* line 52: the label when the horizon elapses without a hit.
TimeoutLabel_Neutral(future_close, close) == 0

TimeoutLabel(future_close, close) == IF future_close > close THEN 1 ELSE 2

\* One iteration of the outer loop, lines 34-52.
LabelOf(L, i) ==
    IF SkipsBar(Get(L.atr, i))
    THEN [label |-> 0, reads |-> {i}]
    ELSE LET s == Scan(L, i, 1)
         IN  IF s.hit
             THEN [label |-> s.label, reads |-> s.reads \cup {i}]
             ELSE [label |-> TimeoutLabel(Get(L.closes, i + L.future_periods),
                                          Get(L.closes, i)),
                   reads |-> s.reads \cup {i, i + L.future_periods}]

\* lines 30-31: n and the labels, all 0.
NewLabeling(bars, atr, h, mult) ==
    [n |-> Len(bars),
     closes |-> [k \in 0..(Len(bars) - 1) |-> bars[k + 1].close],
     highs |-> [k \in 0..(Len(bars) - 1) |-> bars[k + 1].high],
     lows |-> [k \in 0..(Len(bars) - 1) |-> bars[k + 1].low],
     atr |-> [k \in 0..(Len(bars) - 1) |-> atr[k + 1]],
     future_periods |-> h,
     profit_multiplier |-> mult[1],
     stop_multiplier |-> mult[2],
     i |-> 0,
     labels |-> [k \in 0..(Len(bars) - 1) |-> 0],
     reads |-> {},
     pc |-> "loop"]

LabInit ==
    /\ DriverAbsent
    /\ sim = NotRunning
    /\ acm = NotRunning
    /\ \E n \in 0..MaxLen, h \in 1..MaxH, mult \in Multipliers :
        \E bars \in [1..n -> Bars], atr \in [1..n -> AtrValues] :
            lab = NewLabeling(bars, atr, h, mult)

\* lines 33-52: the next iteration of the outer loop.
Label_Bar ==
    /\ lab.pc = "loop"
    /\ InRange(lab, lab.i)
    /\ LET r == LabelOf(lab, lab.i)
       IN  lab' = [lab EXCEPT
                     !.labels = IF r.label = 0 \/ lab.i \notin DOMAIN @
                                THEN @
                                ELSE [@ EXCEPT ![lab.i] = r.label],
                     !.reads = @ \cup r.reads,
                     !.i = @ + 1]
    /\ UNCHANGED <<driver, sim, acm>>

\* line 54: the range is exhausted.
Label_Return ==
    /\ lab.pc = "loop"
    /\ ~InRange(lab, lab.i)
    /\ lab' = [lab EXCEPT !.pc = "returned"]
    /\ UNCHANGED <<driver, sim, acm>>

LabNext ==
    \/ Label_Bar
    \/ Label_Return

SpecLab == LabInit /\ [][LabNext]_vars

\* The call has returned its labels.
Labelled == lab.pc = "returned"

Indices == 0..(lab.n - 1)
Horizon(i) == (i + 1)..(i + lab.future_periods)

\* i is labelled from its own horizon: i + h < N and nonzero volatility.
Eligible(i) == i + lab.future_periods < lab.n /\ lab.atr[i] # 0

TouchesUp(i, j) == lab.highs[j] >= lab.closes[i] + lab.atr[i] * lab.profit_multiplier
TouchesDown(i, j) == lab.lows[j] <= lab.closes[i] - lab.atr[i] * lab.stop_multiplier
Touches(i, j) == TouchesUp(i, j) \/ TouchesDown(i, j)

FirstTouch(i, j) ==
    /\ j \in Horizon(i)
    /\ Touches(i, j)
    /\ \A k \in (i + 1)..(j - 1) : ~Touches(i, k)

\* C13: for every i with i + h < N and nonzero volatility, if j is the first
\* bar of i+1..i+h that touches a barrier and it touches only one, label[i]
\* is 1 when it is the upper barrier and 2 when it is the lower one, whatever
\* the later bars touch.
C13_FirstTouchWins ==
    Labelled =>
        \A i \in Indices : Eligible(i) =>
            \A j \in Horizon(i) :
                (FirstTouch(i, j) /\ ~(TouchesUp(i, j) /\ TouchesDown(i, j))) =>
                    /\ TouchesUp(i, j) => lab.labels[i] = 1
                    /\ TouchesDown(i, j) => lab.labels[i] = 2

\* The first touch is of the upper barrier alone, a later bar of the horizon
\* touches the lower one.
C13_Witness ==
    /\ Labelled
    /\ Eligible(0)
    /\ lab.future_periods = 2
    /\ FirstTouch(0, 1) /\ TouchesUp(0, 1) /\ ~TouchesDown(0, 1)
    /\ TouchesDown(0, 2) /\ ~TouchesUp(0, 2)
    /\ lab.labels[0] = 1

NoTouch(i) == \A j \in Horizon(i) : ~Touches(i, j)

\* C14, as claimed: for every i with i + h < N and nonzero volatility for
\* which no bar of i+1..i+h touches a barrier, label[i] is 0.
C14_TimeoutIsNeutral ==
    Labelled =>
        \A i \in Indices : (Eligible(i) /\ NoTouch(i)) => lab.labels[i] = 0

\* C14, amended: for every such i, label[i] is 1 when close[i+h] > close[i]
\* and 2 otherwise; it is never 0.
C14_TimeoutIsSignOfChange ==
    Labelled =>
        \A i \in Indices : (Eligible(i) /\ NoTouch(i)) =>
            lab.labels[i] =
                IF lab.closes[i + lab.future_periods] > lab.closes[i] THEN 1 ELSE 2

C14_Witness ==
    /\ Labelled
    /\ lab.n = 3 /\ lab.future_periods = 1
    /\ Eligible(0) /\ NoTouch(0) /\ lab.closes[1] > lab.closes[0]
    /\ lab.labels[0] = 1
    /\ Eligible(1) /\ NoTouch(1) /\ lab.closes[2] = lab.closes[1]
    /\ lab.labels[1] = 2

\* C15: every index within h of the end of the series and every index with
\* volatility 0 keeps the label 0 whatever the prices are; with h >= N every
\* label is 0; and no index outside the arrays is ever read.
C15_EdgeLabelsAreZero ==
    /\ lab.reads \subseteq Indices
    /\ \A i \in Indices :
           (i + lab.future_periods >= lab.n \/ lab.atr[i] = 0) => lab.labels[i] = 0
    /\ lab.future_periods >= lab.n => \A i \in Indices : lab.labels[i] = 0

\* A bar of volatility 0 whose horizon touches a barrier, next to one that is
\* labelled, and the last bar.
C15_Witness ==
    /\ Labelled
    /\ lab.n = 3 /\ lab.future_periods = 1
    /\ lab.atr[0] = 0 /\ lab.highs[1] > lab.closes[0]
    /\ lab.labels[0] = 0
    /\ lab.atr[1] # 0 /\ lab.labels[1] # 0
    /\ lab.atr[2] # 0 /\ lab.labels[2] = 0

\* ----------------------------------------------- claims on the simulators
StartingCapital ==
    IF sim.kind = "QuickTester.run" THEN QuickInitialCapital ELSE InitialCapital

\* The simulators that return a Sharpe ratio.
Scored == sim.kind \in {"run_backtest", "_run_backtest_for_period"}

AllZeroProbabilities == \A t \in 1..Len(sim.signals) : sim.signals[t].buy = 0

OneRoundTripAtTheSamePrice ==
    /\ Len(sim.log) = 2
    /\ sim.log[1].side = "buy"
    /\ sim.log[2].side \in {"sell", "liquidate"}
    /\ sim.log[2].price = sim.log[1].price

\* What a round trip of T at an unchanged price costs: run_backtest pays the
\* fee on T, buys at the price with slippage, sells at the price with
\* slippage and pays the fee on the proceeds; _run_backtest_for_period pays
\* the fee on each side and has no slippage.
RoundTripCost(kind, T) ==
    IF kind = "run_backtest"
    THEN (T \div FeeDen)
         + (T - LessRate(MulDiv(T, SlippageDen - 1, SlippageDen + 1), FeeDen))
    ELSE T - LessRate(LessRate(T, FeeDen), FeeDen)

FinalValue ==
    IF sim.kind = "QuickTester.run" THEN sim.result.final ELSE sim.result.capital

\* C18: a run that reaches its last bar Long liquidates at the last price
\* with the sell-side costs: the position is closed and the final value
\* reported is the cash after the liquidation.
C18_LiquidatedAtTheEnd ==
    (Returned /\ Len(sim.prices) >= 1 /\ sim.in_position) =>
        /\ sim.log[Len(sim.log)].side = "liquidate"
        /\ sim.log[Len(sim.log)].price = sim.prices[Len(sim.prices)]
        /\ FinalValue = sim.capital

\* The return series has fewer than 2 points or zero standard deviation.
DegenerateReturns ==
    Len(Returns(sim.portfolio_values)) < 2 \/ StdIsZero(sim.portfolio_values)

MaxUpdates == 4

\* initial_confidence as the caller passes it, also outside the limits.
InitialConfidences == {500000, 510000, 600000, 845000, 900000}

LearningRates == {5, 50}

\* pnl_percent, in 1/10000: small and large, of both signs.
PnlValues == {-50000, -200, -37, 0, 37, 200, 50000}

AcmInit ==
    /\ DriverAbsent
    /\ lab = NotRunning
    /\ sim = NotRunning
    /\ \E c \in InitialConfidences, r \in LearningRates :
        acm = [manager |-> NewConfidenceManager(c, r),
               last_pnl |-> 0, before |-> c]

\* One call of update.
Acm_Update ==
    /\ acm.manager.trade_count < MaxUpdates
    /\ \E pnl_percent \in PnlValues :
        acm' = [manager |-> Update(acm.manager, pnl_percent),
                last_pnl |-> pnl_percent,
                before |-> acm.manager.current_confidence]
    /\ UNCHANGED <<driver, lab, sim>>

AcmNext == Acm_Update

SpecAcm == AcmInit /\ [][AcmNext]_vars

\* The step of a return at or beyond the clamp.
FullStep == acm.manager.learning_rate * PnlClamp

\* C20: after every update, whatever the returns were, the threshold is in
\* [min_confidence, max_confidence]; a profit never raises it and a large
\* one lowers it by the full step or to min_confidence, no further; a loss
\* never lowers it and a large one raises it by the full step or to
\* max_confidence, no further.
C20_ThresholdStaysInBounds ==
    acm.manager.trade_count >= 1 =>
        LET m == acm.manager
            inside == m.min_confidence <= acm.before /\ acm.before <= m.max_confidence
        IN  /\ m.min_confidence <= m.current_confidence
            /\ m.current_confidence <= m.max_confidence
            /\ acm.last_pnl > 0 => m.current_confidence <= Max(acm.before, m.min_confidence)
            /\ acm.last_pnl < 0 => m.current_confidence >= Min(acm.before, m.max_confidence)
            /\ (acm.last_pnl >= PnlClamp /\ inside) =>
                   m.current_confidence = Max(m.min_confidence, acm.before - FullStep)
            /\ (acm.last_pnl <= -PnlClamp /\ inside) =>
                   m.current_confidence = Min(m.max_confidence, acm.before + FullStep)

\* At min_confidence, one more large profit leaves the threshold there.
C20_Witness ==
    /\ acm.manager.trade_count >= 2
    /\ acm.last_pnl > PnlClamp
    /\ acm.before = MinConfidence
    /\ acm.manager.current_confidence = MinConfidence

\* The threshold before the last update was inside the limits.
BeforeInside ==
    /\ acm.manager.min_confidence <= acm.before
    /\ acm.before <= acm.manager.max_confidence

C22_SummaryAlwaysEmitted ==
    pc \in {"done", "interrupted"} =>
        /\ summary.kind = "full"
        /\ summary.cycles = Len(all_results)
        /\ summary.capital = TotalCapital(all_results)

\* ------------------------------------- the checkpoint file under faults
\* SpecIO is the driver on a file system whose writes can fail, with a
\* process that can be killed while it writes and a reader of
\* WFO_STATE_FILE that can read at any moment.
MaxFaults == 1
MaxIoBars == 3

\* What a reader of the file gets.
Content(f) ==
    IF f = <<>> THEN "no file"
    ELSE IF f = Truncated THEN "empty"
    ELSE IF f = Partial THEN "partial"
    ELSE "complete"

Faults == io.write_failures + io.kills

\* The faults do not depend on the shape of the windows: one bar of train,
\* one of test, a step of one.
IoInit ==
    /\ DriverInit
    /\ n_total <= MaxIoBars
    /\ train_size = 1
    /\ test_size = 1
    /\ step_size = 1
    /\ io = [seen |-> "no file", write_failures |-> 0, kills |-> 0]

\* _save_wfo_state, line 42: open(WFO_STATE_FILE, 'w') either raises OSError,
\* which nothing in _save_wfo_state or run() catches, or creates/truncates
\* the file.
SaveOpen ==
    /\ pc = "save"
    /\ \E ok \in BOOLEAN :
         IF ok
         THEN /\ state_file' = Truncated
              /\ pc' = "dump"
              /\ io' = io
         ELSE /\ Faults < MaxFaults
              /\ state_file' = state_file
              /\ pc' = "crashed_in_save"
              /\ io' = [io EXCEPT !.write_failures = @ + 1]
    /\ UNCHANGED <<config, shutdown_requested, memory, study, last_trial,
                   model_file, scaler_file, params_file, summary, ghosts,
                   lab, sim, acm>>

\* _save_wfo_state, lines 43-44: json.dump writes the record into the open
\* file, or raises after a part of it (OSError on write or on the close of
\* the with block) and run() is left by the exception.
SaveDump ==
    /\ pc = "dump"
    /\ \E ok \in BOOLEAN :
         IF ok
         THEN /\ state_file' = SaveWfoState(cycle, start_index, all_results)
              /\ checkpoint_writes' = checkpoint_writes + 1
              /\ pc' = "loop"
              /\ io' = io
         ELSE /\ Faults < MaxFaults
              /\ state_file' = Partial
              /\ checkpoint_writes' = checkpoint_writes
              /\ pc' = "crashed_in_save"
              /\ io' = [io EXCEPT !.write_failures = @ + 1]
    /\ UNCHANGED <<config, shutdown_requested, memory, study, last_trial,
                   model_file, scaler_file, params_file, summary,
                   uninterrupted, signal_in_search, resumed, cycles_ended,
                   lab, sim, acm>>

\* The process is killed (SIGKILL, power loss) between open and the end of
\* json.dump: the file stays as open left it.
Kill ==
    /\ pc = "dump"
    /\ Faults < MaxFaults
    /\ pc' = "killed"
    /\ io' = [io EXCEPT !.kills = @ + 1]
    /\ UNCHANGED <<config, shutdown_requested, memory, study, last_trial,
                   files, summary, ghosts, lab, sim, acm>>

\* Another process opens and reads WFO_STATE_FILE.
ReadCheckpoint ==
    /\ pc # "start"
    /\ io.seen # Content(state_file)
    /\ io' = [io EXCEPT !.seen = Content(state_file)]
    /\ UNCHANGED <<driver_but_io, lab, sim, acm>>

\* main.py, lines 40-41: the program is started again after the fault.
RestartAfterFault ==
    /\ pc \in {"crashed_in_save", "killed"}
    /\ NewProcess

IoNext ==
    \/ GracefulShutdown
    \/ CheckData
    \/ LoadState
    \/ LoopTop
    \/ TrialStart
    \/ TrialFinish
    \/ SearchReturns
    \/ SearchRaises
    \/ AfterSearch
    \/ Retrain
    \/ Report
    \/ SaveOpen
    \/ SaveDump
    \/ Kill
    \/ ReadCheckpoint
    \/ EndOfRun
    \/ Restart
    \/ RestartAfterFault

SpecIO == IoInit /\ [][IoNext]_vars

\* C23: when a checkpoint write fails, the in-memory cycle state is left as
\* it was and the driver goes on to the next cycle instead of terminating.
C23_WriteFailureSurvived ==
    [][io'.write_failures > io.write_failures =>
           /\ pc' = "loop"
           /\ start_index' = start_index
           /\ cycle' = cycle
           /\ all_results' = all_results]_vars

\* C25: a reader of the checkpoint file, at any moment, gets a complete
\* checkpoint (or finds no file before the first one): never an empty or a
\* partially written file.
C25_ReaderSeesCompleteCheckpoint ==
    io.seen \in {"no file", "complete"}

\* C27: _load_wfo_state does not raise and returns the fresh start
\* (0, 1, empty) when there is no file and when the file cannot be parsed.
C27_LoadNeverRaises ==
    [][(pc = "load" /\ pc' # "load" /\ (state_file = <<>> \/ Unparsable(state_file))) =>
           /\ pc' = "loop"
           /\ start_index' = 0
           /\ cycle' = 1
           /\ all_results' = <<>>]_vars

\* A process started on the torn file a killed writer left, after the
\* uninterrupted run would have reached the second cycle.
C27_Witness ==
    /\ pc = "loop"
    /\ Unparsable(state_file)
    /\ io.kills = 1
    /\ uninterrupted.cycle >= 2
    /\ start_index = 0
    /\ cycle = 1
    /\ all_results = <<>>
    /\ ~resumed

\* C24: on a dataset with fewer than train_size + test_size bars, run()
\* returns from the size check: the step that leaves the check ends the run,
\* and no checkpoint is loaded or written, no trial is run and no model is
\* saved by it.
C24_InsufficientDataReturnsAtOnce ==
    [][/\ (pc = "start" /\ n_total < train_size + test_size) =>
              /\ pc' \in {"start", "insufficient"}
              /\ UNCHANGED <<files, memory, study, last_trial, summary,
                             resumed, checkpoint_writes, cycles_ended>>
       /\ pc = "insufficient" =>
              /\ n_total < train_size + test_size
              /\ study = NewStudy
              /\ last_trial = NoTrial
              /\ ~resumed
              /\ checkpoint_writes = 0
              /\ cycles_ended = 0
              /\ final_model = 0]_vars

\* One bar short of a single cycle.
C24_Witness ==
    /\ pc = "insufficient"
    /\ n_total >= 1
    /\ n_total = train_size + test_size - 1
    /\ state_file = <<>>
    /\ model_file = 0

\* C26: the model, scaler, strategy-parameter and checkpoint files change
\* only in steps of the driver itself, never while it is inside a search,
\* and only when every trial of the cycle's search has ended.
C26_FilesWrittenOnlyAfterSearch ==
    [][files' # files =>
           /\ pc \in {"save", "end_exhausted", "end_shutdown"}
           /\ study.waiting = 0
           /\ study.running = 0]_vars

\* A run that wrote a checkpoint and, at its end, the model and the scaler.
C26_Witness ==
    /\ pc = "done"
    /\ model_file # 0
    /\ scaler_file # 0
    /\ state_file # <<>>
    /\ checkpoint_writes >= 1
    /\ study.complete = NTrials

\* ------------------------------------------------ the simulators, per bar
\* The simulation is about to process bar sim.i.
SimBar == sim.pc = "loop" /\ sim.i <= Len(sim.prices)

EntryProbability == sim.signals[sim.i].buy

\* The threshold the bar's entry probability is compared with.
CurrentThreshold ==
    IF sim.kind = "QuickTester.run"
    THEN GetConfidence(sim.confidence_manager)
    ELSE sim.params.prediction_confidence

\* The money an entry on this bar converts.
Notional ==
    IF sim.kind = "_run_backtest_for_period"
    THEN sim.capital
    ELSE TradeSizeUsdt(sim.capital,
             DynamicRiskPct(sim.params.risk_per_trade_pct, EntryProbability,
                            CurrentThreshold))

\* The entry price an entry on this bar records.
EntryPrice ==
    IF sim.kind = "_run_backtest_for_period"
    THEN Market(sim.prices[sim.i])
    ELSE BuyWithSlippage(sim.prices[sim.i])

\* The step opens a position.
Opens ==
    /\ ~sim.in_position
    /\ sim'.in_position
    /\ sim'.buy_price = EntryPrice
    /\ sim'.trade_count = sim.trade_count + 1

\* C28, as claimed: in Flat, a bar whose entry probability exceeds the
\* current threshold while the capital exceeds the floor of 10 opens a
\* position: Long, the entry price recorded, one more trade counted.
C28_EntryOnSignal ==
    [][(/\ SimBar
        /\ ~sim.in_position
        /\ EntryProbability > CurrentThreshold
        /\ sim.capital > MinTrade) => Opens]_vars

\* C28, amended: the same, provided the money the entry would convert
\* (the dynamically sized notional in run_backtest and QuickTester.run, the
\* whole capital in _run_backtest_for_period) also exceeds 10.
C28_EntryOnSignalAndNotional ==
    [][(/\ SimBar
        /\ ~sim.in_position
        /\ EntryProbability > CurrentThreshold
        /\ sim.capital > MinTrade
        /\ Notional > MinTrade) => Opens]_vars

\* run_backtest has entered on its first bar.
C28_Witness ==
    /\ sim.kind = "run_backtest"
    /\ sim.pc = "loop"
    /\ sim.i = 2
    /\ sim.in_position
    /\ sim.trade_count = 1
    /\ sim.signals[1].buy > sim.params.prediction_confidence
    /\ sim.buy_price = BuyWithSlippage(sim.prices[1])
    /\ sim.btc_amount.usdt > MinTrade

\* price / entry_price - 1 has reached the profit threshold or fallen to
\* minus the stop-loss threshold on this bar (thresholds in 1/1000).
ExitCondition ==
    LET price == Market(sim.prices[sim.i])
        gain == (price - sim.buy_price) * 1000
    IN  \/ gain >= sim.params.profit_threshold * sim.buy_price
        \/ gain <= -(sim.params.stop_loss_threshold * sim.buy_price)

\* The bar's sell probability exceeds the threshold of the simulator that
\* reads it.
SellSignal ==
    /\ sim.kind = "_run_backtest_for_period"
    /\ sim.signals[sim.i].sell > sim.params.prediction_confidence

\* The step closes the position.
Closes == sim.in_position /\ ~sim'.in_position

\* C29, as claimed: in Long, a bar closes the position exactly when price / entry_price
\* - 1 >= profit_threshold or <= -stop_loss_threshold; the close leaves the
\* simulator Flat with nothing held and one more trade counted, and the bar
\* of a close opens no position.
C29_ExitExactlyOnThresholds ==
    [][(SimBar /\ sim.in_position) =>
           /\ Closes <=> ExitCondition
           /\ Closes =>
                  /\ sim'.btc_amount = NoBtc
                  /\ sim'.trade_count = sim.trade_count + 1
                  /\ sim'.i = sim.i + 1]_vars

\* C29, amended: in Long, a bar closes the position exactly when price /
\* entry_price - 1 >= profit_threshold or <= -stop_loss_threshold or, in
\* _run_backtest_for_period, the bar's sell probability exceeds
\* prediction_confidence; the close leaves the simulator Flat with nothing
\* held and one more trade counted, and the bar of a close opens no position.
C29_ExitOnThresholdsOrSellSignal ==
    [][(SimBar /\ sim.in_position) =>
           /\ Closes <=> (ExitCondition \/ SellSignal)
           /\ Closes =>
                  /\ sim'.btc_amount = NoBtc
                  /\ sim'.trade_count = sim.trade_count + 1
                  /\ sim'.i = sim.i + 1]_vars

\* QuickTester.run closed on its second bar a position opened on its first,
\* on the stop-loss threshold, and is Flat on the third.
C29_Witness ==
    /\ sim.kind = "QuickTester.run"
    /\ sim.pc = "loop"
    /\ sim.i = 3
    /\ ~sim.in_position
    /\ sim.trade_count = 2
    /\ Len(sim.log) = 2
    /\ sim.log[2].side = "sell"
    /\ sim.prices[2] < sim.prices[1]
    /\ sim.btc_amount = NoBtc

\* C30: every opened trade converts between 0.5 and 1.5 times capital *
\* risk_per_trade (the bounds of the multiplier 0.5 + (probability -
\* threshold) / (1 - threshold) for a probability in (threshold, 1]); the
\* comparison allows for the rounding of the fixed-point amounts.
C30_NotionalWithinRiskBand ==
    [][Opens =>
           LET notional == sim'.log[Len(sim'.log)].usdt
               base == MulDiv(sim.capital, sim.params.risk_per_trade_pct, 10000)
               rounding == (sim.capital \div 10000) + 1
           IN  /\ 2 * (notional + rounding) >= base
               /\ 2 * notional <= 3 * (base + 1)]_vars

\* The simulation has an AdaptiveConfidenceManager attached.
Attached == sim.kind = "QuickTester.run"

\* (sell_price / buy_price) - 1 of a close on this bar, at the slipped prices.
RealizedReturn == PnlOf(SellWithSlippage(sim.prices[sim.i]), sim.buy_price)

SellsIn(log) == Cardinality({k \in DOMAIN log : log[k].side = "sell"})

\* C31: with a controller attached, a bar that closes the position updates
\* the controller once, with the realized return of that trade, and no other
\* bar updates it, so the controller has been updated once per close so far;
\* and in Flat the bar opens a position exactly when its probability exceeds
\* the controller's present threshold (and the two floors of 10 are passed).
C31_ControllerFedAndConsulted ==
    [][(Attached /\ SimBar) =>
           /\ sim.confidence_manager.trade_count = SellsIn(sim.log)
           /\ Closes => sim'.confidence_manager =
                            Update(sim.confidence_manager, RealizedReturn)
           /\ ~Closes => sim'.confidence_manager = sim.confidence_manager
           /\ ~sim.in_position =>
                  (Opens <=>
                      /\ EntryProbability > sim.confidence_manager.current_confidence
                      /\ sim.capital > MinTrade
                      /\ Notional > MinTrade)]_vars

\* A profitable close on the second bar lowered the threshold from 0.705 to
\* 0.695, and the third bar's probability 0.7 opened a position.
C31_Witness ==
    /\ Attached
    /\ sim.i = 4
    /\ sim.in_position
    /\ sim.trade_count = 3
    /\ sim.signals[3].buy = 700000
    /\ sim.params.initial_confidence = 705000
    /\ sim.confidence_manager.trade_count = 1
    /\ sim.confidence_manager.current_confidence = 695000

\* C32: in every state of the controller, from its construction on,
\* get_confidence() is strictly above the decision boundary 0.5 and within
\* [min_confidence, max_confidence].
C32_ThresholdAlwaysInBounds ==
    /\ 2 * GetConfidence(acm.manager) > One
    /\ acm.manager.min_confidence <= GetConfidence(acm.manager)
    /\ GetConfidence(acm.manager) <= acm.manager.max_confidence

\* ------------------------------------------------- the labeler, continued
\* C33: for every i with i + h < N and nonzero volatility, if the first bar
\* of i+1..i+h that touches a barrier touches both, label[i] is 1 (Upside).
C33_TieIsUpside ==
    Labelled =>
        \A i \in Indices : Eligible(i) =>
            \A j \in Horizon(i) :
                (FirstTouch(i, j) /\ TouchesUp(i, j) /\ TouchesDown(i, j)) =>
                    lab.labels[i] = 1

\* The second bar after bar 0 is the first to touch, and touches both.
C33_Witness ==
    /\ Labelled
    /\ Eligible(0)
    /\ lab.future_periods >= 2
    /\ FirstTouch(0, 2)
    /\ TouchesUp(0, 2) /\ TouchesDown(0, 2)
    /\ lab.labels[0] = 1

\* ---------------------------------------------- the simulators, continued
\* One bar of the loop of the simulation s.
SimStep(s) ==
    IF s.kind = "run_backtest" THEN RunBacktest_Step(s)
    ELSE IF s.kind = "_run_backtest_for_period" THEN RunBacktestForPeriod_Step(s)
    ELSE QuickTesterRun_Step(s)

\* The simulation s after t bars.
RECURSIVE Replay(_, _)
Replay(s, t) == IF t = 0 THEN s ELSE SimStep(Replay(s, t - 1))

\* The simulation started on the first t bars of the input alone.
OnPrefix(t) ==
    NewSimulation(sim.kind, SubSeq(sim.prices, 1, t), SubSeq(sim.signals, 1, t),
                  sim.params)

\* C34: the state after bar t (cash, held quantity, in-position flag, entry
\* price, trade count, portfolio values so far) is the state the simulator
\* reaches on the first t bars alone, so two inputs that agree on those bars
\* give the same state after bar t, whatever the later bars are.
C34_NoLookAhead ==
    sim.pc = "loop" =>
        LET t == sim.i - 1
            alone == Replay(OnPrefix(t), t)
        IN  /\ sim.capital = alone.capital
            /\ sim.btc_amount = alone.btc_amount
            /\ sim.in_position = alone.in_position
            /\ sim.buy_price = alone.buy_price
            /\ sim.trade_count = alone.trade_count
            /\ sim.portfolio_values = alone.portfolio_values
            /\ sim.confidence_manager = alone.confidence_manager

\* Two bars of a three-bar window are done, with a position opened on the
\* first and closed on the second; the third bar is still to come.
C34_Witness ==
    /\ sim.pc = "loop"
    /\ Len(sim.prices) = 3
    /\ sim.i = 3
    /\ sim.trade_count = 2
    /\ ~sim.in_position
    /\ Len(sim.portfolio_values) = 2
    /\ sim.prices[3] # sim.prices[2]
    /\ sim.signals[3].buy > 0

\* ------------------------------------------------- the driver, continued
\* C35: once the shutdown flag is set, the process never clears it; a trial
\* that starts afterwards is pruned at once, so no further trial enters the
\* trainer or the backtest; and the top of the loop starts no new cycle.
C35_ShutdownIsSticky ==
    [][shutdown_requested =>
           /\ pc' # "start" => shutdown_requested'
           /\ study'.running <= study.running
           /\ study'.waiting < study.waiting =>
                  /\ study'.pruned = study.pruned + 1
                  /\ last_trial'.result = "pruned"
                  /\ last_trial'.trained = "no"
                  /\ ~last_trial'.backtested
           /\ pc' = "search" => pc = "search"
           /\ pc = "loop" => pc' \in {"loop", "end_exhausted", "end_shutdown"}]_vars

\* The flag was set during a search after one trial had completed, and the
\* next trial was pruned.
C35_Witness ==
    /\ shutdown_requested
    /\ pc = "search"
    /\ study.complete = 1
    /\ study.pruned = 1
    /\ study.running = 0
    /\ last_trial.result = "pruned"

\* The rows a slice selects.
Rows(slice) == {k \in 0..(n_total + MaxTrain + MaxTest) : slice.from <= k /\ k < slice.to}

InCycle == pc \in {"search", "searched", "retrain", "report"}

\* C36: in every cycle the train slice is [start, start + train_size) and
\* the test slice [start + train_size, start + train_size + test_size):
\* adjacent, disjoint, with train_size and test_size rows, all of them rows of
\* the dataset; the start does not move during the cycle, and the step that
\* ends the cycle, whatever its outcome, sets the start to start + step.
C36_SlicesAndStep ==
    [][InCycle =>
           /\ TrainSlice(start_index).from = start_index
           /\ TrainSlice(start_index).to = TestSlice(start_index).from
           /\ Rows(TrainSlice(start_index)) \cap Rows(TestSlice(start_index)) = {}
           /\ Cardinality(Rows(TrainSlice(start_index))) = train_size
           /\ Cardinality(Rows(TestSlice(start_index))) = test_size
           /\ Rows(TrainSlice(start_index)) \cup Rows(TestSlice(start_index))
                  \subseteq 0..(n_total - 1)
           /\ pc' \in {"search", "searched", "retrain", "report", "crashed", "end_shutdown"} =>
                  start_index' = start_index /\ cycle' = cycle
           /\ pc' = "save" =>
                  start_index' = start_index + step_size /\ cycle' = cycle + 1]_vars

\* The second cycle of a run with step 2 tests the last row of the dataset.
C36_Witness ==
    /\ pc = "search"
    /\ cycle = 2
    /\ step_size = 2
    /\ start_index = 2
    /\ TestSlice(start_index).to = n_total
    /\ Len(all_results) = 1

\* cash + held quantity * price, at the price of bar k.
ValueAt(s, k) == s.capital + Worth(s.btc_amount, Market(s.prices[k]))

\* C37: every bar appends exactly one value to the portfolio value series,
\* cash + held quantity * price of that bar (taken before the bar's
\* transition in run_backtest, after it in the other two loops), also on
\* bars without a transition; so the series has one entry per bar simulated
\* so far, and as many entries as the window has bars when the run returns.
C37_OneValuePerBar ==
    [][/\ sim.pc = "loop" => Len(sim.portfolio_values) = sim.i - 1
       /\ SimBar =>
              /\ Len(sim'.portfolio_values) = Len(sim.portfolio_values) + 1
              /\ SubSeq(sim'.portfolio_values, 1, Len(sim.portfolio_values))
                     = sim.portfolio_values
              /\ sim'.portfolio_values[Len(sim'.portfolio_values)] =
                     IF sim.kind = "run_backtest"
                     THEN ValueAt(sim, sim.i)
                     ELSE ValueAt(sim', sim.i)
       /\ sim'.pc = "returned" =>
              Len(sim'.portfolio_values) = Len(sim.prices)]_vars

\* Three bars at the same price without any trade: three equal values.
C37_Witness ==
    /\ sim.pc = "returned"
    /\ Len(sim.prices) = 3
    /\ sim.trade_count = 0
    /\ sim.prices[2] = sim.prices[1]
    /\ sim.prices[3] = sim.prices[1]
    /\ Len(sim.portfolio_values) = 3
    /\ sim.portfolio_values[3] = sim.portfolio_values[1]

\* C38: what _load_wfo_state returns from the file that
\* _save_wfo_state(cycle, start_index, all_results) has written is
\* (start_index, cycle, all_results), while the file holds cycle - 1 as
\* last_completed_cycle.
C38_SaveLoadRoundTrip ==
    [][(pc = "save" /\ pc' # "save") =>
           /\ LoadWfoState(state_file') =
                  [start |-> start_index, cycle |-> cycle, results |-> all_results]
           /\ state_file'[1].last_completed_cycle = cycle - 1
           /\ ~LoadWfoStateRaises(state_file')]_vars

\* The first checkpoint of a fresh run, written after a recorded cycle.
C38_Witness ==
    /\ pc = "loop"
    /\ ~resumed
    /\ checkpoint_writes = 1
    /\ cycle = 2
    /\ Len(all_results) = 1
    /\ state_file # <<>>
    /\ state_file[1].last_completed_cycle = 1
    /\ LoadWfoState(state_file).cycle = 2

\* C39: at the end of every bar the in-position flag is true exactly when
\* something is held and exactly when the trade counter is odd; the trades
\* made so far are alternately entries and exits, the first an entry.
C39_FlagQuantityAndParity ==
    /\ sim.in_position <=> sim.btc_amount.usdt > 0
    /\ sim.in_position <=> sim.trade_count % 2 = 1
    /\ \A k \in 1..sim.trade_count :
           sim.log[k].side = IF k % 2 = 1 THEN "buy" ELSE "sell"

\* An entry, an exit and a second entry in three bars.
C39_Witness ==
    /\ sim.pc = "loop"
    /\ sim.i = 4
    /\ sim.in_position
    /\ sim.trade_count = 3
    /\ sim.btc_amount.usdt > 0
    /\ sim.log[3].side = "buy"
    /\ sim.kind = "run_backtest"

\* risk_per_trade * 1.5 * (1 + fee rate) <= 1, risk in 1/10000.
RiskFits == 3 * sim.params.risk_per_trade_pct * (FeeDen + 1) <= 2 * 10000 * FeeDen

\* C40: in run_backtest, when risk_per_trade * 1.5 * (1 + fee rate) <= 1,
\* the cash balance is never negative.
C40_CashNeverNegative ==
    (sim.kind = "run_backtest" /\ RiskFits) => sim.capital >= 0

\* An entry at probability 1.0 with risk_per_trade 0.666 has taken all the
\* cash but a remainder below 0.01.
C40_Witness ==
    /\ sim.kind = "run_backtest"
    /\ RiskFits
    /\ sim.params.risk_per_trade_pct = 6660
    /\ sim.in_position
    /\ sim.signals[1].buy = One
    /\ sim.trade_count = 1
    /\ sim.capital >= 0
    /\ sim.capital < 100

====
